---- MODULE Spec2Model ----
(***************************************************************************)
(* Model of the markdown-to-PDF report engine of co2agent                  *)
(* (src/tools/report_tools.py): the content pre-pass, the line-by-line     *)
(* block parser with its table/list accumulation state, and the marker     *)
(* insertion pass of save_co2_report_to_pdf.                               *)
(*                                                                         *)
(* Text is a sequence of one-character strings.  "SUB2" stands for the     *)
(* single character U+2082 (subscript two) and "BT" for the backtick.      *)
(***************************************************************************)
EXTENDS Integers, Sequences, FiniteSets, TLC

(***************************************************************************)
(* Bounds of the model                                                     *)
(***************************************************************************)
\* largest number of raw input lines of report_content
MaxLines == 4
\* largest number of raw input lines in the specification of the table and
\* markup lines
MaxMarkupLines == 3
\* largest length of a well name in the specification of the file names
MaxNameLen == 3
\* largest clock value, in half seconds, in the specification of the runs
MaxClock == 3
\* largest number of conversions in the specification of the runs
MaxRuns == 2
\* largest number of pieces a text is made of in the specification of the
\* notation
MaxPieces == 4
\* largest number of normalizer calls on one text
MaxPasses == 2
\* largest number of events (results and failures) a search client delivers
MaxEvents == 3

(***************************************************************************)
(* Text constants of the source                                            *)
(***************************************************************************)
Introduction == <<"I", "n", "t", "r", "o", "d", "u", "c", "t", "i", "o", "n">>
TitlePrefix == <<"C", "O", "SUB2", " ", "S", "t", "o", "r", "a", "g", "e", " ", "A", "s", "s", "e", "s", "s", "m", "e", "n", "t", " ", "R", "e", "p", "o", "r", "t", ":", " ">>
StampText == <<"G", "e", "n", "e", "r", "a", "t", "e", "d", " ", "o", "n", ":", " ", "T">>
StrongOpen == <<"<", "s", "t", "r", "o", "n", "g", ">">>
StrongClose == <<"<", "/", "s", "t", "r", "o", "n", "g", ">">>
ItalicOpen == <<"<", "i", ">">>
ItalicClose == <<"<", "/", "i", ">">>
CodeOpen == <<"<", "c", "o", "d", "e", ">">>
CodeClose == <<"<", "/", "c", "o", "d", "e", ">">>
CO2 == <<"C", "O", "2">>
CO2Sub == <<"C", "O", "<", "s", "u", "b", ">", "2", "<", "/", "s", "u", "b", ">">>
CO2Uni == <<"C", "O", "SUB2">>
ReportsDir == <<"c", "o", "2", "_", "a", "s", "s", "e", "s", "s", "m", "e", "n", "t", "_", "r", "e", "p", "o", "r", "t", "s">>
FilePrefix == <<"C", "O", "2", "_", "S", "t", "o", "r", "a", "g", "e", "_", "A", "s", "s", "e", "s", "s", "m", "e", "n", "t", "_">>
StampDate == <<"2", "0", "2", "6", "0", "1", "0", "1", "_", "0", "0", "0", "0">>
PdfExt == <<".", "p", "d", "f">>
DigitChars == <<"0", "1", "2", "3", "4", "5", "6", "7", "8", "9">>
AsciiLetters ==
    {"a", "b", "c", "d", "e", "f", "g", "h", "i", "j", "k", "l", "m",
     "n", "o", "p", "q", "r", "s", "t", "u", "v", "w", "x", "y", "z",
     "A", "B", "C", "D", "E", "F", "G", "H", "I", "J", "K", "L", "M",
     "N", "O", "P", "Q", "R", "S", "T", "U", "V", "W", "X", "Y", "Z"}
\* characters outside ASCII for which str.isalnum() holds: "U+00E9" stands for
\* the letter e with acute accent, "U+00B2" for superscript two, "SUB2" for
\* subscript two
UnicodeAlnum == {"U+00E9", "U+00B2", "SUB2"}
Digits == {"0", "1", "2", "3", "4", "5", "6", "7", "8", "9"}
\* the value a builder returns for an empty accumulation
None == [type |-> "None"]

(***************************************************************************)
(* String primitives (str.strip, `in`, re.sub on a literal, str.split)     *)
(***************************************************************************)
IsSpace(c) == c = " "

\* first index >= i of s holding a non-space character, Len(s)+1 if none
RECURSIVE SkipSpaces(_, _)
SkipSpaces(s, i) ==
    IF i > Len(s) THEN Len(s) + 1
    ELSE IF IsSpace(s[i]) THEN SkipSpaces(s, i + 1) ELSE i

\* last index <= i of s holding a non-space character, 0 if none
RECURSIVE SkipSpacesBack(_, _)
SkipSpacesBack(s, i) ==
    IF i < 1 THEN 0
    ELSE IF IsSpace(s[i]) THEN SkipSpacesBack(s, i - 1) ELSE i

\* str.strip()
Strip(s) == SubSeq(s, SkipSpaces(s, 1), SkipSpacesBack(s, Len(s)))

\* pat occurs in s starting at index i
MatchAt(s, i, pat) ==
    /\ i >= 1
    /\ i + Len(pat) - 1 <= Len(s)
    /\ \A k \in 1..Len(pat) : s[i + k - 1] = pat[k]

\* pat in s
Contains(s, pat) == \E i \in 1..Len(s) : MatchAt(s, i, pat)

\* re.sub(pat, rep, s) for a literal pattern, scanning from index i
RECURSIVE ReplaceFrom(_, _, _, _)
ReplaceFrom(s, i, pat, rep) ==
    IF i > Len(s) THEN <<>>
    ELSE IF MatchAt(s, i, pat) THEN rep \o ReplaceFrom(s, i + Len(pat), pat, rep)
    ELSE <<s[i]>> \o ReplaceFrom(s, i + 1, pat, rep)

ReplaceAll(s, pat, rep) == ReplaceFrom(s, 1, pat, rep)

\* smallest index >= i at which pat occurs in s, 0 if none
RECURSIVE FindFrom(_, _, _)
FindFrom(s, i, pat) ==
    IF i + Len(pat) - 1 > Len(s) THEN 0
    ELSE IF MatchAt(s, i, pat) THEN i ELSE FindFrom(s, i + 1, pat)

\* re.sub of the non-greedy pattern d(.*?)d by lt group rt, for a literal
\* delimiter d, scanning from i:
\* the leftmost delimiter pairs with the nearest following one
RECURSIVE SubDelimFrom(_, _, _, _, _)
SubDelimFrom(s, i, d, lt, rt) ==
    IF i > Len(s) THEN <<>>
    ELSE IF MatchAt(s, i, d) /\ FindFrom(s, i + Len(d), d) # 0
         THEN LET j == FindFrom(s, i + Len(d), d)
              IN  lt \o SubSeq(s, i + Len(d), j - 1) \o rt
                     \o SubDelimFrom(s, j + Len(d), d, lt, rt)
         ELSE <<s[i]>> \o SubDelimFrom(s, i + 1, d, lt, rt)

SubDelim(s, d, lt, rt) == SubDelimFrom(s, 1, d, lt, rt)

\* s.split(sep) for a one-character separator, scanning from i with the
\* current field cur
RECURSIVE SplitFrom(_, _, _, _)
SplitFrom(s, i, sep, cur) ==
    IF i > Len(s) THEN <<cur>>
    ELSE IF s[i] = sep THEN <<cur>> \o SplitFrom(s, i + 1, sep, <<>>)
    ELSE SplitFrom(s, i + 1, sep, Append(cur, s[i]))

Split(s, sep) == SplitFrom(s, 1, sep, <<>>)

\* s.strip(ch) for a one-character set
RECURSIVE SkipChar(_, _, _)
SkipChar(s, i, ch) ==
    IF i > Len(s) THEN Len(s) + 1
    ELSE IF s[i] = ch THEN SkipChar(s, i + 1, ch) ELSE i

RECURSIVE SkipCharBack(_, _, _)
SkipCharBack(s, i, ch) ==
    IF i < 1 THEN 0
    ELSE IF s[i] = ch THEN SkipCharBack(s, i - 1, ch) ELSE i

StripChar(s, ch) == SubSeq(s, SkipChar(s, 1, ch), SkipCharBack(s, Len(s), ch))

(***************************************************************************)
(* Inline formatting and the content pre-pass                              *)
(***************************************************************************)
\* variant of _process_inline_formatting: the subscript markup goes around the
\* whole token, which stays in the text
ProcessInlineFormatting_TokenKept(text) ==
    LET bold   == SubDelim(text, <<"*", "*">>, StrongOpen, StrongClose)
        italic == SubDelim(bold, <<"*">>, ItalicOpen, ItalicClose)
        code   == SubDelim(italic, <<"BT">>, CodeOpen, CodeClose)
    IN  ReplaceAll(code, CO2, <<"<", "s", "u", "b", ">">> \o CO2 \o <<"<", "/", "s", "u", "b", ">">>)

\* _process_inline_formatting: bold, italic, code, CO2, in this order
ProcessInlineFormatting(text) ==
    LET bold   == SubDelim(text, <<"*", "*">>, StrongOpen, StrongClose)
        italic == SubDelim(bold, <<"*">>, ItalicOpen, ItalicClose)
        code   == SubDelim(italic, <<"BT">>, CodeOpen, CodeClose)
    IN  ReplaceAll(code, CO2, CO2Sub)

\* the MULTILINE pattern ^(# .+)$ of apply_styling_enhancements matches this raw line
SectionLine(raw) == Len(raw) >= 3 /\ raw[1] = "#" /\ raw[2] = " "

\* what the pre-pass (the CO2 substitution of save_co2_report_to_pdf followed
\* by apply_styling_enhancements) makes of one raw line; no pattern of the
\* pre-pass matches across a line end, so it acts line by line
EnhanceLine(raw) ==
    LET uni    == ReplaceAll(ReplaceAll(raw, CO2, CO2Uni), CO2, CO2Uni)
        bold   == SubDelim(uni, <<"*", "*">>, StrongOpen, StrongClose)
    IN  SubDelim(bold, <<"*">>, ItalicOpen, ItalicClose)

\* the pre-pass on the whole content, a sequence of raw lines: a line
\* matching '# ...' gets a line end appended, i.e. is followed by an empty line
RECURSIVE ApplyStylingEnhancements(_)
ApplyStylingEnhancements(content) ==
    IF content = <<>> THEN <<>>
    ELSE LET raw == Head(content)
         IN  (IF SectionLine(ReplaceAll(raw, CO2, CO2Uni))
                 THEN <<EnhanceLine(raw), <<>>>>
                 ELSE <<EnhanceLine(raw)>>)
             \o ApplyStylingEnhancements(Tail(content))

\* index of the first line of ls, from i on, that is not blank; Len(ls)+1 if none
RECURSIVE FirstNonBlank(_, _)
FirstNonBlank(ls, i) ==
    IF i > Len(ls) THEN Len(ls) + 1
    ELSE IF Strip(ls[i]) = <<>> THEN FirstNonBlank(ls, i + 1) ELSE i

\* index of the last line of ls, up to i, that is not blank; 0 if none
RECURSIVE LastNonBlank(_, _)
LastNonBlank(ls, i) ==
    IF i < 1 THEN 0
    ELSE IF Strip(ls[i]) = <<>> THEN LastNonBlank(ls, i - 1) ELSE i

\* report_content.strip().split(newline): leading and trailing blank lines go,
\* and the split of an empty text is one empty line
SplitLines(content) ==
    LET kept == SubSeq(content, FirstNonBlank(content, 1),
                       LastNonBlank(content, Len(content)))
    IN  IF kept = <<>> THEN << <<>> >> ELSE kept

(***************************************************************************)
(* The artifact path                                                       *)
(***************************************************************************)
\* the class \w of a str pattern: letters, digits and the underscore, of any
\* script
IsWordChar(c) == c \in AsciiLetters \cup Digits \cup {"_"} \cup UnicodeAlnum

\* re.sub of [^\w] by '_'
Sanitize(name) ==
    [k \in DOMAIN name |-> IF IsWordChar(name[k]) THEN name[k] ELSE "_"]

\* strftime of the clock reading, whole seconds: the fraction is cut off
FormatTimestamp(halfseconds) ==
    LET sec == halfseconds \div 2
    IN  StampDate \o <<DigitChars[((sec \div 10) % 10) + 1], DigitChars[(sec % 10) + 1]>>

\* the path of the artifact
FileName(name, now) ==
    ReportsDir \o <<"/">> \o FilePrefix \o Sanitize(name) \o <<"_">>
        \o FormatTimestamp(now) \o PdfExt

(***************************************************************************)
(* Layout blocks (ReportLab flowables)                                     *)
(***************************************************************************)
Paragraph(text, style) == [type |-> "Paragraph", text |-> text, style |-> style]
Spacer(height) == [type |-> "Spacer", height |-> height]
PageBreak == [type |-> "PageBreak"]
FrameBreak == [type |-> "FrameBreak"]
NextPageTemplate(name) == [type |-> "NextPageTemplate", name |-> name]

\* get_styles: key of the style map to the name of the style
StyleName(key) ==
    CASE key = "CustomTitle"     -> "CustomReportTitle"
      [] key = "CustomSubtitle"  -> "CustomReportSubtitle"
      [] key = "SectionTitle"    -> "CustomSectionTitle"
      [] key = "SubsectionTitle" -> "CustomSubsectionTitle"
      [] key = "BodyText"        -> "CustomBodyText"
      [] key = "Heading3"        -> "Heading3"
      [] key = "Heading4"        -> "Heading4"

RECURSIVE MaxRowLen(_)
MaxRowLen(rows) ==
    IF rows = <<>> THEN 0
    ELSE LET m == MaxRowLen(Tail(rows))
         IN  IF Len(Head(rows)) > m THEN Len(Head(rows)) ELSE m

\* _create_table
CreateTable(table_data) ==
    IF table_data = <<>> THEN None
    ELSE [type |-> "KeepTogether",
          rows |-> [r \in DOMAIN table_data |->
                      [c \in DOMAIN table_data[r] |->
                         ProcessInlineFormatting(table_data[r][c])]],
          col_count |-> MaxRowLen(table_data)]

\* _create_list
CreateList(items, list_type) ==
    IF items = <<>> THEN None
    ELSE [type |-> "ListFlowable",
          items |-> items,
          bulletType |-> IF list_type = "bullet" THEN "bullet" ELSE "1"]

(***************************************************************************)
(* Line classification (the patterns of _process_line)                     *)
(***************************************************************************)
\* length of the leading run of '#'
HashRun(line) == SkipChar(line, 1, "#") - 1

\* the header pattern: 1 to 4 '#', whitespace, text
HeaderMatch(line) ==
    LET n == HashRun(line)
    IN  n \in 1..4 /\ Len(line) >= n + 2 /\ IsSpace(line[n + 1])

\* group 2 of a pattern ending in whitespace-run then text, the marker being
\* the first n characters: the greedy whitespace run leaves the text at least
\* one character
MarkedText(line, n) ==
    LET k == SkipSpaces(line, n + 1)
    IN  IF k <= Len(line) THEN SubSeq(line, k, Len(line))
        ELSE <<line[Len(line)]>>

\* length of the leading run of digits of line, from index i on
RECURSIVE DigitRun(_, _)
DigitRun(line, i) ==
    IF i > Len(line) \/ line[i] \notin Digits THEN 0
    ELSE 1 + DigitRun(line, i + 1)

\* length of the list marker ('-', '*' or digits and a dot), 0 if none
ListPrefixLen(line) ==
    IF Len(line) >= 1 /\ line[1] \in {"-", "*"} THEN 1
    ELSE LET d == DigitRun(line, 1)
         IN  IF d >= 1 /\ d < Len(line) /\ line[d + 1] = "." THEN d + 1 ELSE 0

\* the list pattern: marker, whitespace, text
ListMatch(line) ==
    LET p == ListPrefixLen(line)
    IN  p > 0 /\ Len(line) >= p + 2 /\ IsSpace(line[p + 1])

\* cells of a table row
TableCells(line) ==
    LET parts == Split(StripChar(line, "|"), "|")
    IN  [k \in DOMAIN parts |-> Strip(parts[k])]

\* the branch of _process_line a non-empty line takes
LineKind(line) ==
    IF HeaderMatch(line) THEN "header"
    ELSE IF ListMatch(line) THEN "list"
    ELSE IF Contains(line, <<"|">>) THEN "table"
    ELSE "paragraph"

(***************************************************************************)
(* _process_line: each branch maps the line and the parse state to the     *)
(* new parse state and the returned blocks (ret; empty for a None return)  *)
(***************************************************************************)
EmptyState ==
    [in_table |-> FALSE, table_data |-> <<>>,
     in_list |-> FALSE, list_items |-> <<>>, list_type |-> "None"]

HeaderStyleKey(level) ==
    IF level = 1 THEN "SectionTitle"
    ELSE IF level = 2 THEN "SubsectionTitle"
    ELSE IF level = 3 THEN "Heading3" ELSE "Heading4"

\* variant of the header branch: a spacer before a heading of any level
HeaderBranch_SpacerAlways(line, st) ==
    LET level == HashRun(line)
        heading_text == MarkedText(line, level)
        tbl == IF st.in_table THEN <<CreateTable(st.table_data)>> ELSE <<>>
        lst == IF st.in_list THEN <<CreateList(st.list_items, st.list_type)>> ELSE <<>>
    IN  [state |-> [st EXCEPT !.in_table = FALSE,
                              !.table_data = IF st.in_table THEN <<>> ELSE @,
                              !.in_list = FALSE,
                              !.list_items = IF st.in_list THEN <<>> ELSE @,
                              !.list_type = IF st.in_list THEN "None" ELSE @],
         ret |-> tbl \o lst \o <<Spacer("0.2in")>>
                 \o <<Paragraph(heading_text, StyleName(HeaderStyleKey(level)))>>]

HeaderBranch(line, st) ==
    LET level == HashRun(line)
        heading_text == MarkedText(line, level)
        tbl == IF st.in_table THEN <<CreateTable(st.table_data)>> ELSE <<>>
        lst == IF st.in_list THEN <<CreateList(st.list_items, st.list_type)>> ELSE <<>>
        spc == IF level = 1 THEN <<Spacer("0.2in")>> ELSE <<>>
    IN  [state |-> [st EXCEPT !.in_table = FALSE,
                              !.table_data = IF st.in_table THEN <<>> ELSE @,
                              !.in_list = FALSE,
                              !.list_items = IF st.in_list THEN <<>> ELSE @,
                              !.list_type = IF st.in_list THEN "None" ELSE @],
         ret |-> tbl \o lst \o spc
                 \o <<Paragraph(heading_text, StyleName(HeaderStyleKey(level)))>>]

ListBranch(line, st) ==
    LET content == MarkedText(line, ListPrefixLen(line))
        list_type == IF line[1] \in {"-", "*"} THEN "bullet" ELSE "number"
        switch == ~st.in_list \/ st.list_type # list_type
        \* the block of the open list is put in result, and result is not returned
        result == IF switch /\ st.in_list
                  THEN <<CreateList(st.list_items, st.list_type)>> ELSE <<>>
        kept == IF switch /\ st.in_list THEN <<>> ELSE st.list_items
    IN  [state |-> [st EXCEPT !.in_list = TRUE,
                              !.list_type = list_type,
                              !.list_items = Append(kept, ProcessInlineFormatting(content))],
         ret |-> <<>>]

\* variant of the table branch: a separator line opens the table before it
\* is skipped
TableBranch_DividerOpens(line, st) ==
    IF Contains(line, <<"-", "-", "-">>)
    THEN [state |-> [st EXCEPT !.in_table = TRUE], ret |-> <<>>]
    ELSE [state |-> [st EXCEPT !.in_table = TRUE,
                               !.table_data =
                                   IF st.in_table
                                   THEN Append(st.table_data, TableCells(line))
                                   ELSE <<TableCells(line)>>],
          ret |-> <<>>]

TableBranch(line, st) ==
    IF Contains(line, <<"-", "-", "-">>)
    THEN [state |-> st, ret |-> <<>>]
    ELSE [state |-> [st EXCEPT !.in_table = TRUE,
                               !.table_data =
                                   IF st.in_table
                                   THEN Append(st.table_data, TableCells(line))
                                   ELSE <<TableCells(line)>>],
          ret |-> <<>>]

\* variant of the paragraph branch: no spacer after a flushed table
ParagraphBranch_NoSpacer(line, st) ==
    LET tbl == IF st.in_table THEN <<CreateTable(st.table_data)>> ELSE <<>>
        lst == IF st.in_list THEN <<CreateList(st.list_items, st.list_type)>> ELSE <<>>
    IN  [state |-> [st EXCEPT !.in_table = FALSE,
                              !.table_data = IF st.in_table THEN <<>> ELSE @,
                              !.in_list = FALSE,
                              !.list_items = IF st.in_list THEN <<>> ELSE @,
                              !.list_type = IF st.in_list THEN "None" ELSE @],
         ret |-> tbl \o lst
                 \o <<Paragraph(ProcessInlineFormatting(line), StyleName("BodyText"))>>]

ParagraphBranch(line, st) ==
    LET tbl == IF st.in_table
               THEN <<CreateTable(st.table_data), Spacer("0.2in")>> ELSE <<>>
        lst == IF st.in_list THEN <<CreateList(st.list_items, st.list_type)>> ELSE <<>>
    IN  [state |-> [st EXCEPT !.in_table = FALSE,
                              !.table_data = IF st.in_table THEN <<>> ELSE @,
                              !.in_list = FALSE,
                              !.list_items = IF st.in_list THEN <<>> ELSE @,
                              !.list_type = IF st.in_list THEN "None" ELSE @],
         ret |-> tbl \o lst
                 \o <<Paragraph(ProcessInlineFormatting(line), StyleName("BodyText"))>>]

\* variant of _process_line: the table test comes before the list test
ProcessLine_TableBeforeList(line, st) ==
    IF HeaderMatch(line) THEN HeaderBranch(line, st)
    ELSE IF Contains(line, <<"|">>) THEN TableBranch(line, st)
    ELSE IF ListMatch(line) THEN ListBranch(line, st)
    ELSE ParagraphBranch(line, st)

ProcessLine(line, st) ==
    IF HeaderMatch(line) THEN HeaderBranch(line, st)
    ELSE IF ListMatch(line) THEN ListBranch(line, st)
    ELSE IF Contains(line, <<"|">>) THEN TableBranch(line, st)
    ELSE ParagraphBranch(line, st)

(***************************************************************************)
(* The assembler's helpers                                                 *)
(***************************************************************************)
\* list.insert(idx, x), idx a 0-based index: an index past the end appends
InsertAt(s, idx, x) ==
    LET k == IF idx > Len(s) THEN Len(s) ELSE idx
    IN  SubSeq(s, 1, k) \o <<x>> \o SubSeq(s, k + 1, Len(s))

\* the 0-based indices of the Paragraph elements whose text contains
\* "Introduction"
IntroductionIndices(elems) ==
    {k \in 0..(Len(elems) - 1) :
        /\ elems[k + 1].type = "Paragraph"
        /\ Contains(elems[k + 1].text, Introduction)}

Min(a, b) == IF a < b THEN a ELSE b

\* variant of _find_title_page_end: the default is 10 whatever the length
FindTitlePageEnd_Fixed10(elems) ==
    IF IntroductionIndices(elems) # {}
    THEN CHOOSE k \in IntroductionIndices(elems) :
            \A m \in IntroductionIndices(elems) : k <= m
    ELSE 10

\* _find_title_page_end
FindTitlePageEnd(elems) ==
    IF IntroductionIndices(elems) # {}
    THEN CHOOSE k \in IntroductionIndices(elems) :
            \A m \in IntroductionIndices(elems) : k <= m
    ELSE Min(10, Len(elems))

\* the test of the column-break loop on one element
IsSectionTitle(e) == e.type = "Paragraph" /\ e.style = "CustomSectionTitle"

(***************************************************************************)
(* Inputs                                                                  *)
(***************************************************************************)
\* raw lines a report content is made of
RawLines ==
    { <<>>,
      <<"#", " ", "I", "n", "t", "r", "o", "d", "u", "c", "t", "i", "o", "n">>,
      <<"#", " ", "M">>,
      <<"#", "#", " ", "b">>,
      <<"#", "#", "#", " ", "c">>,
      <<"-", " ", "a">>,
      <<"1", ".", " ", "b">>,
      <<"|", "a", "|", "b">>,
      <<"s", "e", "e", " ", "I", "n", "t", "r", "o", "d", "u", "c", "t", "i", "o", "n">>,
      <<"p">> }

\* well names
WellNames == { <<"W">> }

\* the sequences over S of length at most n
BoundedSeq(S, n) == UNION {[1..m -> S] : m \in 0..n}

(***************************************************************************)
(* State                                                                   *)
(***************************************************************************)
VARIABLES
    report_content,        \* argument of save_co2_report_to_pdf, as raw lines
    well_name,             \* argument of save_co2_report_to_pdf
    sanitized_well_name,   \* the well name as put in the file name
    filename,              \* the path of the artifact
    clock,                 \* what datetime.now() reads, in half seconds
    returned,              \* the paths the conversions have returned so far
    lines,                 \* the lines _process_markdown_content loops over
    i,                     \* loop index (0-based) of the loop that is running
    state,                 \* the parse state dictionary
    elements,              \* the list of flowables
    parsed,                \* the list as _process_markdown_content returned it
    title_page_end_index,  \* result of _find_title_page_end
    stop,                  \* end of the range of the column-break loop
    pc,                    \* position in save_co2_report_to_pdf
    artifacts,             \* the files under the reports directory
    text,                  \* argument and result of a normalizer called on its own
    applied,               \* the normalizers applied to text so far
    tool,                  \* the search tool that was called
    pending,               \* what the search client has still to yield
    results,               \* the list the search tool accumulates
    search_return,         \* what the search tool returned
    log,                   \* the levels of the records the search tool has logged
    search_pc              \* position in the search tool

\* the state of a normalizer called on its own
notation_vars == <<text, applied>>

\* the state of a search tool
search_vars == <<tool, pending, results, search_return, log, search_pc>>

\* the state of save_co2_report_to_pdf
conversion_vars == <<report_content, well_name, sanitized_well_name, filename, clock, returned, lines, i, state, elements, parsed,
                     title_page_end_index, stop, pc, artifacts>>

vars == <<conversion_vars, notation_vars, search_vars>>

\* no normalizer has been called on its own
NotationIdle ==
    /\ text = <<>>
    /\ applied = <<>>

\* no search tool has been called
SearchIdle ==
    /\ tool = "none"
    /\ pending = <<>>
    /\ results = <<>>
    /\ search_return = <<>>
    /\ log = <<>>
    /\ search_pc = "idle"

\* nothing has run yet
Fresh ==
    /\ NotationIdle
    /\ SearchIdle
    /\ artifacts = {}
    /\ sanitized_well_name = <<>>
    /\ filename = <<>>
    /\ clock = 0
    /\ returned = <<>>
    /\ lines = <<>>
    /\ i = 0
    /\ state = EmptyState
    /\ elements = <<>>
    /\ parsed = <<>>
    /\ title_page_end_index = 0
    /\ stop = 0
    /\ pc = "start"

Init ==
    /\ report_content \in BoundedSeq(RawLines, MaxLines)
    /\ well_name \in WellNames
    /\ Fresh

(***************************************************************************)
(* Actions                                                                 *)
(***************************************************************************)
\* the file name, the pre-pass, and _process_markdown_content up to its loop
Prepare ==
    /\ pc = "start"
    /\ sanitized_well_name' = Sanitize(well_name)
    /\ filename' = FileName(well_name, clock)
    /\ lines' = SplitLines(ApplyStylingEnhancements(report_content))
    /\ elements' = << Paragraph(TitlePrefix \o well_name, StyleName("CustomTitle")),
                      Paragraph(StampText, StyleName("CustomSubtitle")),
                      Spacer("0.3in") >>
    /\ state' = EmptyState
    /\ i' = 0
    /\ pc' = "parse"
    /\ UNCHANGED <<notation_vars, search_vars, artifacts, report_content, well_name, clock, returned, parsed, title_page_end_index, stop>>

\* the line the loop of _process_markdown_content is at
CurrentLine == Strip(lines[i + 1])

\* variant of the empty-line iteration: an open table is closed as well
BlankLine_ClosesTable ==
    /\ pc = "parse"
    /\ i < Len(lines)
    /\ CurrentLine = <<>>
    /\ elements' = elements
                    \o (IF state.in_table THEN <<CreateTable(state.table_data)>> ELSE <<>>)
                    \o (IF state.in_list
                        THEN <<CreateList(state.list_items, state.list_type)>> ELSE <<>>)
    /\ state' = EmptyState
    /\ i' = i + 1
    /\ UNCHANGED <<notation_vars, search_vars, artifacts, report_content, well_name, sanitized_well_name, filename, clock, returned, lines, parsed, title_page_end_index, stop, pc>>

\* variant of the empty-line iteration: the loop continues without advancing
\* its index
BlankLine_Stays ==
    /\ pc = "parse"
    /\ i < Len(lines)
    /\ CurrentLine = <<>>
    /\ IF state.in_list
       THEN /\ elements' = Append(elements, CreateList(state.list_items, state.list_type))
            /\ state' = [state EXCEPT !.list_items = <<>>,
                                      !.in_list = FALSE,
                                      !.list_type = "None"]
       ELSE UNCHANGED <<elements, state>>
    /\ UNCHANGED <<notation_vars, search_vars, artifacts, report_content, well_name, sanitized_well_name, filename, clock, returned, lines, i, parsed, title_page_end_index, stop, pc>>

\* one iteration of the loop on an empty line
BlankLine ==
    /\ pc = "parse"
    /\ i < Len(lines)
    /\ CurrentLine = <<>>
    /\ IF state.in_list
       THEN /\ elements' = Append(elements, CreateList(state.list_items, state.list_type))
            /\ state' = [state EXCEPT !.list_items = <<>>,
                                      !.in_list = FALSE,
                                      !.list_type = "None"]
       ELSE UNCHANGED <<elements, state>>
    /\ i' = i + 1
    /\ UNCHANGED <<notation_vars, search_vars, artifacts, report_content, well_name, sanitized_well_name, filename, clock, returned, lines, parsed, title_page_end_index, stop, pc>>

\* one iteration of the loop on a non-empty line of the given kind
LineStep(kind) ==
    /\ pc = "parse"
    /\ i < Len(lines)
    /\ CurrentLine # <<>>
    /\ LineKind(CurrentLine) = kind
    /\ LET processed == ProcessLine(CurrentLine, state)
       IN  /\ state' = processed.state
           /\ elements' = elements \o processed.ret
    /\ i' = i + 1
    /\ UNCHANGED <<notation_vars, search_vars, artifacts, report_content, well_name, sanitized_well_name, filename, clock, returned, lines, parsed, title_page_end_index, stop, pc>>

HeaderLine == LineStep("header")
ListLine == LineStep("list")
TableLine == LineStep("table")
ParagraphLine == LineStep("paragraph")

\* variant of the end of _process_markdown_content: the open list is
\* committed only when no table was
FlushRemaining_TableOrList ==
    /\ pc = "parse"
    /\ i >= Len(lines)
    /\ LET tbl == IF state.in_table /\ state.table_data # <<>>
                  THEN <<CreateTable(state.table_data)>> ELSE <<>>
           lst == IF tbl = <<>> /\ state.in_list /\ state.list_items # <<>>
                  THEN <<CreateList(state.list_items, state.list_type)>> ELSE <<>>
       IN  /\ elements' = elements \o tbl \o lst
           /\ parsed' = elements \o tbl \o lst
    /\ pc' = "assemble"
    /\ UNCHANGED <<notation_vars, search_vars, artifacts, report_content, well_name, sanitized_well_name, filename, clock, returned, lines, i, state, title_page_end_index, stop>>

\* the end of _process_markdown_content: the remaining accumulations
FlushRemaining ==
    /\ pc = "parse"
    /\ i >= Len(lines)
    /\ LET tbl == IF state.in_table /\ state.table_data # <<>>
                  THEN <<CreateTable(state.table_data)>> ELSE <<>>
           lst == IF state.in_list /\ state.list_items # <<>>
                  THEN <<CreateList(state.list_items, state.list_type)>> ELSE <<>>
       IN  /\ elements' = elements \o tbl \o lst
           /\ parsed' = elements \o tbl \o lst
    /\ pc' = "assemble"
    /\ UNCHANGED <<notation_vars, search_vars, artifacts, report_content, well_name, sanitized_well_name, filename, clock, returned, lines, i, state, title_page_end_index, stop>>

\* variant of the marker insertion: the template switch goes in before the
\* page break
InsertTemplates_SwitchFirst ==
    /\ pc = "assemble"
    /\ LET e0 == InsertAt(elements, 0, NextPageTemplate("title"))
           idx == FindTitlePageEnd(e0)
           e1 == InsertAt(e0, idx, NextPageTemplate("two_column"))
           e2 == InsertAt(e1, idx + 1, PageBreak)
       IN  /\ title_page_end_index' = idx
           /\ IF idx > 0
              THEN /\ elements' = e2
                   /\ i' = idx + 2
                   /\ stop' = Len(e2)
                   /\ pc' = "breaks"
              ELSE /\ elements' = e0
                   /\ pc' = "build"
                   /\ UNCHANGED <<i, stop>>
    /\ UNCHANGED <<notation_vars, search_vars, artifacts, report_content, well_name, sanitized_well_name, filename, clock, returned, lines, state, parsed>>

\* the template markers and the page break of save_co2_report_to_pdf
InsertTemplates ==
    /\ pc = "assemble"
    /\ LET e0 == InsertAt(elements, 0, NextPageTemplate("title"))
           idx == FindTitlePageEnd(e0)
           e1 == InsertAt(e0, idx, PageBreak)
           e2 == InsertAt(e1, idx + 1, NextPageTemplate("two_column"))
       IN  /\ title_page_end_index' = idx
           /\ IF idx > 0
              THEN /\ elements' = e2
                   /\ i' = idx + 2
                   /\ stop' = Len(e2)
                   /\ pc' = "breaks"
              ELSE /\ elements' = e0
                   /\ pc' = "build"
                   /\ UNCHANGED <<i, stop>>
    /\ UNCHANGED <<notation_vars, search_vars, artifacts, report_content, well_name, sanitized_well_name, filename, clock, returned, lines, state, parsed>>

\* variant of the column-break loop: the marker is assigned to the slot
\* instead of inserted
FrameBreakStep_Overwrite ==
    /\ pc = "breaks"
    /\ i < stop
    /\ elements' = IF IsSectionTitle(elements[i + 1])
                   THEN [elements EXCEPT ![i + 1] = FrameBreak]
                   ELSE elements
    /\ i' = i + 1
    /\ UNCHANGED <<notation_vars, search_vars, artifacts, report_content, well_name, sanitized_well_name, filename, clock, returned, lines, state, parsed,
                   title_page_end_index, stop, pc>>

\* one iteration of the column-break loop
FrameBreakStep ==
    /\ pc = "breaks"
    /\ i < stop
    /\ elements' = IF IsSectionTitle(elements[i + 1])
                   THEN InsertAt(elements, i, FrameBreak)
                   ELSE elements
    /\ i' = i + 1
    /\ UNCHANGED <<notation_vars, search_vars, artifacts, report_content, well_name, sanitized_well_name, filename, clock, returned, lines, state, parsed,
                   title_page_end_index, stop, pc>>

\* the files once the renderer has written to path: the file is opened under
\* this name for writing, so what was there before is gone
Written(files, path, complete) ==
    {f \in files : f.path # path} \cup {[path |-> path, complete |-> complete]}

\* doc.build and the return
Build ==
    /\ pc \in {"breaks", "build"}
    /\ pc = "breaks" => i >= stop
    /\ pc' = "done"
    /\ artifacts' = Written(artifacts, filename, TRUE)
    /\ returned' = Append(returned, filename)
    /\ UNCHANGED <<notation_vars, search_vars, report_content, well_name, sanitized_well_name, filename, clock,
                   lines, i, state, elements, parsed, title_page_end_index, stop>>

Next ==
    \/ Prepare
    \/ BlankLine
    \/ HeaderLine
    \/ ListLine
    \/ TableLine
    \/ ParagraphLine
    \/ FlushRemaining
    \/ InsertTemplates
    \/ FrameBreakStep
    \/ Build

Spec == Init /\ [][Next]_vars

(***************************************************************************)
(* Specification of the table and markup lines: the same conversion on     *)
(* contents made of divider rows, rows with dashes, marked-up list items   *)
(* and lines that match two patterns                                       *)
(***************************************************************************)
MarkupLines ==
    { <<>>,
      <<"#", " ", "I", "n", "t", "r", "o", "d", "u", "c", "t", "i", "o", "n">>,
      <<"#", "#", " ", "a", "|", "BT", "c", "BT">>,
      <<"-", " ", "a", "|", "b">>,
      <<"*", " ", "a", " ", "*", "b">>,
      <<"|", "a", "|", "b">>,
      <<"|", "-", "-", "-", "|">>,
      <<"|", "a", "-", "-", "-", "b", "|", "c">>,
      <<"p">> }

InitLines ==
    /\ report_content \in BoundedSeq(MarkupLines, MaxMarkupLines)
    /\ well_name \in WellNames
    /\ Fresh

SpecLines == InitLines /\ [][Next]_vars

\* the control of a conversion that has not returned moves: to another
\* position or to another index of the loop it is in
ControlMoves ==
    /\ pc # "done"
    /\ pc' \in {"start", "parse", "assemble", "breaks", "build", "done"}
    /\ i' \in 0..(Len(lines) + Len(elements) + 3)

\* the same, with the progress of a sequential program: as long as the
\* conversion has not returned, its next statement is executed, so its control
\* does not stand still forever
FairSpecLines == InitLines /\ [][Next]_vars /\ WF_<<pc, i>>(ControlMoves)

(***************************************************************************)
(* Specification of the file names: the conversion of one content under    *)
(* every well name over a small alphabet                                   *)
(***************************************************************************)
\* a content that takes the conversion through every step
FixedContent ==
    << <<"#", " ", "I", "n", "t", "r", "o", "d", "u", "c", "t", "i", "o", "n">>,
       <<"-", " ", "a">>,
       <<"|", "a", "|", "b">>,
       <<"p">> >>

NameChars == {"a", "9", "_", "/", "-", "U+00E9"}

InitNames ==
    /\ report_content = FixedContent
    /\ well_name \in BoundedSeq(NameChars, MaxNameLen) \cup {<<"1", "5", "/", "9", "-", "1", "4">>}
    /\ Fresh

SpecNames == InitNames /\ [][Next]_vars

(***************************************************************************)
(* Specification of the runs: the tool is called again after it returned,  *)
(* while the clock advances at its own pace                                *)
(***************************************************************************)
RunNames == {<<"a", "/", "b">>, <<"a", "-", "b">>, <<"c">>}

\* half a second passes
Tick ==
    /\ clock < MaxClock
    /\ clock' = clock + 1
    /\ UNCHANGED <<notation_vars, search_vars, artifacts, report_content, well_name, sanitized_well_name, filename, returned,
                   lines, i, state, elements, parsed, title_page_end_index, stop, pc>>

\* the agent calls save_co2_report_to_pdf once more
NewConversion ==
    /\ pc = "done"
    /\ Len(returned) < MaxRuns
    /\ report_content' = FixedContent
    /\ well_name' \in RunNames
    /\ sanitized_well_name' = <<>>
    /\ filename' = <<>>
    /\ lines' = <<>>
    /\ i' = 0
    /\ state' = EmptyState
    /\ elements' = <<>>
    /\ parsed' = <<>>
    /\ title_page_end_index' = 0
    /\ stop' = 0
    /\ pc' = "start"
    /\ UNCHANGED <<notation_vars, search_vars, artifacts, clock, returned>>

InitRuns ==
    /\ report_content = FixedContent
    /\ well_name \in RunNames
    /\ Fresh

NextRuns ==
    \/ Next
    \/ Tick
    \/ NewConversion

SpecRuns == InitRuns /\ [][NextRuns]_vars

(***************************************************************************)
(* Specification of the writes: the runs, with a render/write step that    *)
(* may fail                                                                *)
(***************************************************************************)
\* doc.build raises: nothing catches the exception, so it leaves
\* save_co2_report_to_pdf; the renderer writes under the final name, so a
\* file it had opened by then stays there as far as it was written
BuildFails ==
    /\ pc \in {"breaks", "build"}
    /\ pc = "breaks" => i >= stop
    /\ pc' = "failed"
    /\ \E opened \in BOOLEAN :
          artifacts' = IF opened THEN Written(artifacts, filename, FALSE) ELSE artifacts
    /\ UNCHANGED <<notation_vars, search_vars, report_content, well_name, sanitized_well_name,
                   filename, clock, returned, lines, i, state, elements, parsed,
                   title_page_end_index, stop>>

NextWrites ==
    \/ NextRuns
    \/ BuildFails

SpecWrites == InitRuns /\ [][NextWrites]_vars

(***************************************************************************)
(* Specification of the notation: the two normalizers called on their own  *)
(* on a text, one after the other in any order                             *)
(***************************************************************************)
\* the pieces a text is made of
Pieces == { <<"C">>, <<"O">>, <<"2">>, <<"*">>, CO2Sub, CO2Uni }

RECURSIVE Concat(_)
Concat(pieces) ==
    IF pieces = <<>> THEN <<>> ELSE Head(pieces) \o Concat(Tail(pieces))

\* CO2 storage in CO2 reservoirs
ScenarioText ==
    CO2 \o <<" ", "s", "t", "o", "r", "a", "g", "e", " ", "i", "n", " ">> \o CO2
        \o <<" ", "r", "e", "s", "e", "r", "v", "o", "i", "r", "s">>

\* _process_inline_formatting is called on text
InlineFormatting ==
    /\ Len(applied) < MaxPasses
    /\ text' = ProcessInlineFormatting(text)
    /\ applied' = Append(applied, [normalizer |-> "inline", argument |-> text])
    /\ UNCHANGED <<conversion_vars, search_vars>>

\* the pre-pass of save_co2_report_to_pdf (the CO2 substitution, then
\* apply_styling_enhancements) on text, a single line that is no heading
PrePass ==
    /\ Len(applied) < MaxPasses
    /\ text' = EnhanceLine(text)
    /\ applied' = Append(applied, [normalizer |-> "prepass", argument |-> text])
    /\ UNCHANGED <<conversion_vars, search_vars>>

InitNotation ==
    /\ text \in {Concat(ps) : ps \in BoundedSeq(Pieces, MaxPieces)} \cup {ScenarioText}
    /\ applied = <<>>
    /\ SearchIdle
    /\ artifacts = {}
    /\ report_content = <<>>
    /\ well_name = <<>>
    /\ sanitized_well_name = <<>>
    /\ filename = <<>>
    /\ clock = 0
    /\ returned = <<>>
    /\ lines = <<>>
    /\ i = 0
    /\ state = EmptyState
    /\ elements = <<>>
    /\ parsed = <<>>
    /\ title_page_end_index = 0
    /\ stop = 0
    /\ pc = "start"

NextNotation ==
    \/ InlineFormatting
    \/ PrePass

SpecNotation == InitNotation /\ [][NextNotation]_vars

(***************************************************************************)
(* Specification of the searches: arxiv_search and internet_search, with a *)
(* client that delivers results, results that cannot be processed, and     *)
(* failures                                                                *)
(***************************************************************************)
Tools == {"arxiv_search", "internet_search"}

\* what the client delivers on one step of the iteration: a result, with the
\* numbers of query terms found in its title and in its abstract or snippet
\* and of storage terms found there; a result the loop body cannot process
\* (a field is missing); or an exception of the client
ClientEvents ==
    { [kind |-> "result", title |-> "A", title_hits |-> 1, body_hits |-> 1,
       storage_title_hits |-> 0, storage_body_hits |-> 1],
      [kind |-> "result", title |-> "B", title_hits |-> 0, body_hits |-> 1,
       storage_title_hits |-> 1, storage_body_hits |-> 0],
      [kind |-> "result", title |-> "C", title_hits |-> 0, body_hits |-> 0,
       storage_title_hits |-> 0, storage_body_hits |-> 0],
      [kind |-> "malformed"],
      [kind |-> "exception"] }

\* _calculate_relevance_score
CalculateRelevanceScore(r) == 2 * r.title_hits + r.body_hits

\* _calculate_web_relevance, in half points (the smallest weight is 0.5)
CalculateWebRelevance(r) ==
    2 * (3 * r.title_hits + r.body_hits) + 4 * r.storage_title_hits + r.storage_body_hits

\* the dictionary the loop body appends for a result
ResultEntry(t, r) ==
    [title |-> r.title,
     relevance_score |-> IF t = "arxiv_search" THEN CalculateRelevanceScore(r)
                         ELSE CalculateWebRelevance(r)]

\* list.sort by relevance_score with reverse=True: stable, so entries of equal
\* score keep their order
RECURSIVE InsertByScore(_, _)
InsertByScore(sorted, e) ==
    IF sorted = <<>> THEN <<e>>
    ELSE IF Head(sorted).relevance_score >= e.relevance_score
         THEN <<Head(sorted)>> \o InsertByScore(Tail(sorted), e)
         ELSE <<e>> \o sorted

RECURSIVE SortByScore(_)
SortByScore(rs) ==
    IF rs = <<>> THEN <<>>
    ELSE InsertByScore(SortByScore(SubSeq(rs, 1, Len(rs) - 1)), rs[Len(rs)])

\* the value returned from the outer except clause
ErrorResult == << [error |-> "Search failed"] >>

\* the client (and, for arxiv_search, the search) is constructed and the
\* result list created
Construct ==
    /\ search_pc = "construct"
    /\ results' = <<>>
    /\ search_pc' = "iterate"
    /\ UNCHANGED <<conversion_vars, notation_vars, tool, pending, search_return, log>>

\* one iteration of the loop on a result
ProcessResult ==
    /\ search_pc = "iterate"
    /\ pending # <<>>
    /\ Head(pending).kind = "result"
    /\ results' = Append(results, ResultEntry(tool, Head(pending)))
    /\ pending' = Tail(pending)
    /\ UNCHANGED <<conversion_vars, notation_vars, tool, search_return, log, search_pc>>

\* one iteration of the loop on a result that cannot be processed: the inner
\* except clause logs and continues
SkipResult ==
    /\ search_pc = "iterate"
    /\ pending # <<>>
    /\ Head(pending).kind = "malformed"
    /\ pending' = Tail(pending)
    /\ log' = Append(log, IF tool = "arxiv_search" THEN "error" ELSE "warning")
    /\ UNCHANGED <<conversion_vars, notation_vars, tool, results, search_return, search_pc>>

\* the end of the loop: sort and return
SortAndReturn ==
    /\ search_pc = "iterate"
    /\ pending = <<>>
    /\ results' = SortByScore(results)
    /\ search_return' = SortByScore(results)
    /\ search_pc' = "returned"
    /\ UNCHANGED <<conversion_vars, notation_vars, tool, pending, log>>

\* variant of the outer except clause: the results gathered so far are
\* returned with the error
SearchFails_KeepsPartial ==
    /\ \/ search_pc = "construct"
       \/ search_pc = "iterate" /\ pending # <<>> /\ Head(pending).kind = "exception"
    /\ search_return' = results \o ErrorResult
    /\ log' = Append(log, "error")
    /\ search_pc' = "returned"
    /\ UNCHANGED <<conversion_vars, notation_vars, tool, pending, results>>

\* the outer except clause: a constructor raises, or the client does while
\* the loop asks it for the next result
SearchFails ==
    /\ \/ search_pc = "construct"
       \/ search_pc = "iterate" /\ pending # <<>> /\ Head(pending).kind = "exception"
    /\ search_return' = ErrorResult
    /\ log' = Append(log, "error")
    /\ search_pc' = "returned"
    /\ UNCHANGED <<conversion_vars, notation_vars, tool, pending, results>>

InitSearch ==
    /\ tool \in Tools
    /\ pending \in BoundedSeq(ClientEvents, MaxEvents)
    /\ results = <<>>
    /\ search_return = <<>>
    /\ log = <<"info">>
    /\ search_pc = "construct"
    /\ NotationIdle
    /\ artifacts = {}
    /\ report_content = <<>>
    /\ well_name = <<>>
    /\ sanitized_well_name = <<>>
    /\ filename = <<>>
    /\ clock = 0
    /\ returned = <<>>
    /\ lines = <<>>
    /\ i = 0
    /\ state = EmptyState
    /\ elements = <<>>
    /\ parsed = <<>>
    /\ title_page_end_index = 0
    /\ stop = 0
    /\ pc = "start"

NextSearch ==
    \/ Construct
    \/ ProcessResult
    \/ SkipResult
    \/ SortAndReturn
    \/ SearchFails

SpecSearch == InitSearch /\ [][NextSearch]_vars

(***************************************************************************)
(* Vocabulary of the properties                                            *)
(***************************************************************************)
\* the loop of _process_markdown_content is about to process a line of this kind
AtLine(kind) ==
    /\ pc = "parse"
    /\ i < Len(lines)
    /\ CurrentLine # <<>>
    /\ LineKind(CurrentLine) = kind

\* _process_markdown_content has returned
Parsed == pc \in {"assemble", "breaks", "build", "done"}

\* the marker insertion of save_co2_report_to_pdf has started
Assembled == pc \in {"breaks", "build", "done"}

\* a row made only of separator, dash and space characters
IsDivider(line) == \A k \in 1..Len(line) : line[k] \in {"|", "-", " "}

IsMarker(e) == e.type \in {"NextPageTemplate", "PageBreak", "FrameBreak"}
NotMarker(e) == ~IsMarker(e)

\* a Heading block: a Paragraph in one of the styles _process_line gives a header
IsHeading(e) ==
    /\ e.type = "Paragraph"
    /\ e.style \in {"CustomSectionTitle", "CustomSubsectionTitle", "Heading3", "Heading4"}

\* the 1-based positions of s holding an element of the given type
Positions(s, type) == {k \in 1..Len(s) : s[k].type = type}

\* the text of the line is in a block of s, by the kind of the line
TextEmitted(line, s) ==
    CASE LineKind(line) = "header" ->
            \E k \in 1..Len(s) :
                /\ IsHeading(s[k])
                /\ s[k].text = MarkedText(line, HashRun(line))
      [] LineKind(line) = "list" ->
            \E k \in Positions(s, "ListFlowable") :
                \E m \in 1..Len(s[k].items) :
                    s[k].items[m] =
                        ProcessInlineFormatting(MarkedText(line, ListPrefixLen(line)))
      [] LineKind(line) = "table" ->
            \/ IsDivider(line)
            \/ \E k \in Positions(s, "KeepTogether") :
                \E m \in 1..Len(s[k].rows) :
                    s[k].rows[m] =
                        [c \in DOMAIN TableCells(line) |->
                            ProcessInlineFormatting(TableCells(line)[c])]
      [] LineKind(line) = "paragraph" ->
            \E k \in 1..Len(s) :
                /\ s[k].type = "Paragraph"
                /\ s[k].style = "CustomBodyText"
                /\ s[k].text = ProcessInlineFormatting(line)

(***************************************************************************)
(* C1: the text of every heading line, paragraph line, list item and       *)
(* non-divider table row of the input is in a block of the parser's        *)
(* output: no accumulated item or row is dropped.                          *)
(***************************************************************************)
C1_NoTextDropped ==
    Parsed =>
        \A k \in 1..Len(lines) :
            Strip(lines[k]) # <<>> => TextEmitted(Strip(lines[k]), parsed)

(***************************************************************************)
(* C2: in_table and in_list are never both true.                           *)
(***************************************************************************)
C2_TableListExclusive == ~(state.in_table /\ state.in_list)

(***************************************************************************)
(* C3: a list item of the other kind commits the open list as one List     *)
(* block holding all its items, and starts a new accumulation with the     *)
(* new item alone.                                                         *)
(***************************************************************************)
C3_KindSwitchFlushes ==
    [][ ( /\ AtLine("list")
          /\ state.in_list
          /\ state.list_type # (IF CurrentLine[1] \in {"-", "*"} THEN "bullet" ELSE "number")
          /\ i' = i + 1 )
        => /\ elements' = Append(elements,
                                 [type |-> "ListFlowable",
                                  items |-> state.list_items,
                                  bulletType |-> IF state.list_type = "bullet"
                                                 THEN "bullet" ELSE "1"])
           /\ Len(state'.list_items) = 1
           /\ state'.list_type # state.list_type
      ]_vars

(***************************************************************************)
(* C4: in the assembled sequence a column break stands immediately before  *)
(* each top-level heading after the two_column switch, exactly one each,   *)
(* and nowhere else.                                                       *)
(***************************************************************************)
C4_OneBreakPerSection ==
    pc = "done" =>
        \A k \in 1..Len(elements) :
            /\ elements[k].type = "FrameBreak" =>
                  /\ k > title_page_end_index + 2
                  /\ k < Len(elements)
                  /\ IsSectionTitle(elements[k + 1])
            /\ (IsSectionTitle(elements[k]) /\ k > title_page_end_index + 2) =>
                  /\ elements[k - 1].type = "FrameBreak"
                  /\ elements[k - 2].type # "FrameBreak"

(***************************************************************************)
(* C5: when a Heading block contains "Introduction", the boundary is the   *)
(* index of the first such Heading block in the scanned sequence (the      *)
(* parser's output behind the title template marker).                      *)
(***************************************************************************)
IntroHeadings == {k \in 1..Len(parsed) :
                    IsHeading(parsed[k]) /\ Contains(parsed[k].text, Introduction)}

C5_BoundaryAtIntroHeading ==
    (Assembled /\ IntroHeadings # {}) =>
        /\ title_page_end_index \in IntroHeadings
        /\ \A k \in IntroHeadings : title_page_end_index <= k

(***************************************************************************)
(* C6: without a block containing "Introduction" the boundary is           *)
(* min(10, N), N the length of the scanned sequence; below 10 blocks the   *)
(* boundary is N, the page break and the template switch are appended at   *)
(* the end, and every index the assembler uses is within range.            *)
(***************************************************************************)
NoIntroduction ==
    \A k \in 1..Len(parsed) :
        parsed[k].type = "Paragraph" => ~Contains(parsed[k].text, Introduction)

C6_DefaultBoundary ==
    (Assembled /\ NoIntroduction) =>
        LET N == Len(parsed) + 1
        IN  /\ title_page_end_index = (IF N <= 10 THEN N ELSE 10)
            /\ title_page_end_index <= N
            /\ pc = "breaks" => (i <= stop /\ stop <= Len(elements))
            /\ N < 10 =>
                  /\ title_page_end_index = N
                  /\ elements = <<NextPageTemplate("title")>> \o parsed
                                \o <<PageBreak, NextPageTemplate("two_column")>>

C6_Witness ==
    /\ pc = "done"
    /\ NoIntroduction
    /\ Len(parsed) > 3
    /\ Len(parsed) + 1 < 10
    /\ elements[Len(elements)] = NextPageTemplate("two_column")

(***************************************************************************)
(* C7: the assembled sequence starts with the 'title' template marker and  *)
(* holds exactly one page break, at the boundary index, immediately        *)
(* followed by the 'two_column' template marker.                           *)
(***************************************************************************)
C7_TemplatesAndPageBreak ==
    Assembled =>
        /\ elements[1] = NextPageTemplate("title")
        /\ Cardinality(Positions(elements, "PageBreak")) = 1
        /\ elements[title_page_end_index + 1] = PageBreak
        /\ elements[title_page_end_index + 2] = NextPageTemplate("two_column")

C7_Witness ==
    /\ pc = "done"
    /\ title_page_end_index < Len(parsed)
    /\ elements[title_page_end_index + 1] = PageBreak
    /\ Positions(elements, "FrameBreak") # {}

(***************************************************************************)
(* C8: the assembler only inserts markers: the assembled sequence without  *)
(* its template, page-break and column-break markers is the sequence the   *)
(* parser returned.                                                        *)
(***************************************************************************)
C8_OnlyMarkersInserted == Assembled => SelectSeq(elements, NotMarker) = parsed

C8_Witness ==
    /\ pc = "done"
    /\ Cardinality(Positions(elements, "FrameBreak")) >= 2
    /\ Cardinality(Positions(parsed, "Paragraph")) >= 4

(***************************************************************************)
(* C9: a heading line emits the block of the open table, the block of the  *)
(* open list, a Spacer iff the level is 1, then the Heading block in the   *)
(* style of its level, and leaves no accumulation open.                    *)
(***************************************************************************)
C9_HeaderEmits ==
    [][ (AtLine("header") /\ i' = i + 1) =>
          LET level == (CHOOSE n \in 1..Len(CurrentLine) :
                            /\ CurrentLine[n] = " "
                            /\ \A m \in 1..(n - 1) : CurrentLine[m] = "#") - 1
              style == CASE level = 1 -> "CustomSectionTitle"
                         [] level = 2 -> "CustomSubsectionTitle"
                         [] level = 3 -> "Heading3"
                         [] level = 4 -> "Heading4"
              tbl == IF state.in_table THEN <<CreateTable(state.table_data)>> ELSE <<>>
              lst == IF state.in_list
                     THEN <<CreateList(state.list_items, state.list_type)>> ELSE <<>>
              spc == IF level = 1 THEN <<Spacer("0.2in")>> ELSE <<>>
          IN  /\ Len(elements') = Len(elements) + Len(tbl) + Len(lst) + Len(spc) + 1
              /\ SubSeq(elements', 1, Len(elements') - 1) = elements \o tbl \o lst \o spc
              /\ elements'[Len(elements')].type = "Paragraph"
              /\ elements'[Len(elements')].style = style
              /\ ~state'.in_table /\ state'.table_data = <<>>
              /\ ~state'.in_list /\ state'.list_items = <<>>
      ]_vars

C9_Witness ==
    /\ pc = "parse"
    /\ i >= 3
    /\ LineKind(Strip(lines[i])) = "header"
    /\ Len(elements) >= 7
    /\ elements[Len(elements) - 3].type = "KeepTogether"
    /\ elements[Len(elements) - 2].type = "ListFlowable"
    /\ elements[Len(elements) - 1].type = "Spacer"
    /\ elements[Len(elements)].style = "CustomSectionTitle"

(***************************************************************************)
(* C10: a paragraph line emits the Table block of the open table followed  *)
(* by a Spacer, the List block of the open list, then one Paragraph block; *)
(* the Spacer is there only when a table was flushed; no accumulation      *)
(* stays open.                                                             *)
(***************************************************************************)
C10_ParagraphEmits ==
    [][ (AtLine("paragraph") /\ i' = i + 1) =>
          LET tbl == IF state.in_table
                     THEN <<CreateTable(state.table_data), Spacer("0.2in")>> ELSE <<>>
              lst == IF state.in_list
                     THEN <<CreateList(state.list_items, state.list_type)>> ELSE <<>>
          IN  /\ Len(elements') = Len(elements) + Len(tbl) + Len(lst) + 1
              /\ SubSeq(elements', 1, Len(elements') - 1) = elements \o tbl \o lst
              /\ elements'[Len(elements')].type = "Paragraph"
              /\ elements'[Len(elements')].style = "CustomBodyText"
              /\ ~state'.in_table /\ state'.table_data = <<>>
              /\ ~state'.in_list /\ state'.list_items = <<>>
      ]_vars

C10_Witness ==
    /\ pc = "parse"
    /\ i >= 3
    /\ LineKind(Strip(lines[i])) = "paragraph"
    /\ Len(elements) >= 7
    /\ elements[Len(elements) - 3].type = "KeepTogether"
    /\ elements[Len(elements) - 2].type = "Spacer"
    /\ elements[Len(elements) - 1].type = "ListFlowable"
    /\ elements[Len(elements)].style = "CustomBodyText"

(***************************************************************************)
(* C11: a blank line emits no block of its own; it commits an open list    *)
(* as one List block and resets the list state, and leaves in_table and    *)
(* the accumulated table rows as they are.                                 *)
(***************************************************************************)
C11_BlankLineFlushesListOnly ==
    [][ (pc = "parse" /\ i < Len(lines) /\ CurrentLine = <<>> /\ i' = i + 1) =>
          /\ elements' = IF state.list_items # <<>>
                         THEN Append(elements,
                                     [type |-> "ListFlowable",
                                      items |-> state.list_items,
                                      bulletType |-> IF state.list_type = "bullet"
                                                     THEN "bullet" ELSE "1"])
                         ELSE elements
          /\ ~state'.in_list /\ state'.list_items = <<>> /\ state'.list_type = "None"
          /\ state'.in_table = state.in_table
          /\ state'.table_data = state.table_data
      ]_vars

\* a blank line has just committed a list while a table stays open
C11_Witness ==
    /\ pc = "parse"
    /\ i >= 3
    /\ Strip(lines[i]) = <<>>
    /\ elements[Len(elements)].type = "ListFlowable"
    /\ state.in_table
    /\ state.table_data # <<>>

(***************************************************************************)
(* C12: at the end of the input every accumulated table row and list item  *)
(* not yet emitted goes into a final Table block and a final List block.   *)
(***************************************************************************)
C12_EndOfInputFlushes ==
    [][ (pc = "parse" /\ pc' = "assemble") =>
          LET tbl == IF state.table_data # <<>>
                     THEN <<[type |-> "KeepTogether",
                             rows |-> [r \in DOMAIN state.table_data |->
                                         [c \in DOMAIN state.table_data[r] |->
                                            ProcessInlineFormatting(state.table_data[r][c])]],
                             col_count |-> MaxRowLen(state.table_data)]>>
                     ELSE <<>>
              lst == IF state.list_items # <<>>
                     THEN <<[type |-> "ListFlowable",
                             items |-> state.list_items,
                             bulletType |-> IF state.list_type = "bullet"
                                            THEN "bullet" ELSE "1"]>>
                     ELSE <<>>
          IN  /\ elements' = elements \o tbl \o lst
              /\ parsed' = elements'
      ]_vars

\* the input ended with a table and a two-item list open
C12_Witness ==
    /\ pc = "assemble"
    /\ state.table_data # <<>>
    /\ Len(state.list_items) = 2
    /\ elements[Len(elements) - 1].type = "KeepTogether"
    /\ elements[Len(elements)].type = "ListFlowable"
    /\ elements[Len(elements)].items = state.list_items

(***************************************************************************)
(* C13: a table-kind line (it holds '|' and matches neither the heading    *)
(* nor the list pattern) is discarded iff it is made only of separator,    *)
(* dash and space characters; any other is accumulated as a table row.     *)
(***************************************************************************)
\* the whitespace-trimmed segments between the separators of a row, without
\* the empty segment outside a bounding separator
SegmentCells(line) ==
    LET parts == Split(line, "|")
        lo == IF parts[1] = <<>> THEN 2 ELSE 1
        hi == IF parts[Len(parts)] = <<>> THEN Len(parts) - 1 ELSE Len(parts)
    IN  [k \in 1..(hi - lo + 1) |-> Strip(parts[lo + k - 1])]

C13_OnlyDividersDiscarded ==
    [][ (AtLine("table") /\ i' = i + 1) =>
          /\ elements' = elements
          /\ IF IsDivider(CurrentLine)
             THEN state' = state
             ELSE state'.table_data = Append(state.table_data, SegmentCells(CurrentLine))
      ]_vars

(***************************************************************************)
(* C14: a content made of table rows (and blank lines) only gives exactly  *)
(* one Table block, whose rows are the non-divider lines in input order,   *)
(* each with the trimmed segments between its separators as cells.         *)
(***************************************************************************)
IsRowLine(l) == Strip(l) # <<>> /\ ~IsDivider(Strip(l))

C14_OneTablePerRun ==
    ( /\ Parsed
      /\ \A k \in 1..Len(lines) :
             Strip(lines[k]) = <<>> \/ LineKind(Strip(lines[k])) = "table"
      /\ \E k \in 1..Len(lines) : IsRowLine(lines[k]) )
    => LET rowLines == SelectSeq(lines, IsRowLine)
           tables == Positions(parsed, "KeepTogether")
       IN  /\ Cardinality(tables) = 1
           /\ \A t \in tables :
                 parsed[t].rows =
                     [r \in 1..Len(rowLines) |->
                        [c \in DOMAIN SegmentCells(Strip(rowLines[r])) |->
                           ProcessInlineFormatting(SegmentCells(Strip(rowLines[r]))[c])]]

(***************************************************************************)
(* C15: a non-empty line is classified by the first matching rule in the   *)
(* order heading, list item, table row, paragraph: a heading or list line  *)
(* holding '|' adds no table row, and a line matching none of the first    *)
(* three rules gives exactly one Paragraph block.                          *)
(***************************************************************************)
C15_FirstMatchWins ==
    [][ (pc = "parse" /\ i < Len(lines) /\ CurrentLine # <<>> /\ i' = i + 1) =>
          LET line == CurrentLine
              isHeader == HeaderMatch(line)
              isList == ~isHeader /\ ListMatch(line)
              isTable == ~isHeader /\ ~isList /\ Contains(line, <<"|">>)
              last == elements'[Len(elements')]
          IN  /\ (isHeader \/ isList) => Len(state'.table_data) <= Len(state.table_data)
              /\ isHeader => /\ Len(elements') > Len(elements)
                             /\ IsHeading(last)
                             /\ state'.list_items = <<>>
              /\ isList => /\ state'.in_list
                           /\ state'.list_items[Len(state'.list_items)] =
                                 ProcessInlineFormatting(MarkedText(line, ListPrefixLen(line)))
              /\ isTable => /\ elements' = elements
                            /\ state'.list_items = state.list_items
              /\ (~isHeader /\ ~isList /\ ~isTable) =>
                    /\ Cardinality(Positions(elements', "Paragraph"))
                          = Cardinality(Positions(elements, "Paragraph")) + 1
                    /\ last = [type |-> "Paragraph",
                               text |-> ProcessInlineFormatting(line),
                               style |-> "CustomBodyText"]
      ]_vars

\* a list line holding '|' has just been accumulated as a list item
C15_Witness ==
    /\ pc = "parse"
    /\ i >= 1
    /\ ListMatch(Strip(lines[i]))
    /\ Contains(Strip(lines[i]), <<"|">>)
    /\ state.in_list
    /\ Contains(state.list_items[Len(state.list_items)], <<"|">>)
    /\ ~state.in_table

(***************************************************************************)
(* C16: every line of the report content that starts with a '*' or '-'     *)
(* marker followed by whitespace and text reaches the parser as a bullet   *)
(* list item, whatever other '*' it holds.                                 *)
(***************************************************************************)
IsBulletLine(l) == Len(l) >= 3 /\ l[1] \in {"-", "*"} /\ IsSpace(l[2])

C16_BulletLinesStayBullets ==
    pc # "start" =>
        Cardinality({m \in 1..Len(lines) :
                        /\ LineKind(Strip(lines[m])) = "list"
                        /\ IsBulletLine(Strip(lines[m]))})
        >= Cardinality({k \in 1..Len(report_content) :
                           IsBulletLine(Strip(report_content[k]))})

(***************************************************************************)
(* C17: the text of a Heading block is the text of the heading line, its   *)
(* marker stripped, after inline formatting, as for a paragraph.           *)
(***************************************************************************)
C17_HeadingTextFormatted ==
    [][ (AtLine("header") /\ i' = i + 1) =>
          elements'[Len(elements')].text =
              ProcessInlineFormatting(MarkedText(CurrentLine, HashRun(CurrentLine)))
      ]_vars

(***************************************************************************)
(* C18: the sanitized well name has the length of the well name, keeps     *)
(* the characters of [A-Za-z0-9_] and has '_' in the place of every other  *)
(* character, letters and digits outside ASCII included.                   *)
(***************************************************************************)
AsciiWord == AsciiLetters \cup Digits \cup {"_"}

C18_SanitizedIsAsciiWord ==
    pc # "start" =>
        /\ Len(sanitized_well_name) = Len(well_name)
        /\ \A k \in 1..Len(well_name) :
              sanitized_well_name[k] =
                  IF well_name[k] \in AsciiWord THEN well_name[k] ELSE "_"

(***************************************************************************)
(* C19: when the well name sanitizes to the empty string, the subject      *)
(* component of the file name is a non-empty placeholder.                  *)
(***************************************************************************)
\* what the path holds between the fixed prefix and the timestamp
SubjectComponent(path) ==
    SubSeq(path,
           Len(ReportsDir) + 1 + Len(FilePrefix) + 1,
           Len(path) - (1 + Len(FormatTimestamp(0)) + Len(PdfExt)))

C19_PlaceholderForEmptyName ==
    (pc # "start" /\ sanitized_well_name = <<>>) => SubjectComponent(filename) # <<>>

(***************************************************************************)
(* C20: the paths returned by any two conversions differ.                  *)
(***************************************************************************)
C20_PathsUnique ==
    \A a, b \in 1..Len(returned) : a # b => returned[a] # returned[b]

(***************************************************************************)
(* C21: a normalizer leaves no literal CO2 in its result, puts its         *)
(* subscript form in the place of each occurrence, once, and returns its   *)
(* own result unchanged when it is applied to it again; this for the       *)
(* inline formatter and for the pre-pass, which applies the substitution   *)
(* twice in sequence.                                                      *)
(***************************************************************************)
\* the number of places at which pat occurs in s
Count(s, pat) == Cardinality({k \in 1..Len(s) : MatchAt(s, k, pat)})

\* the subscript form a normalizer writes
SubscriptForm(normalizer) == IF normalizer = "inline" THEN CO2Sub ELSE CO2Uni

\* the result of the k-th normalizer call
ResultOf(k) == IF k < Len(applied) THEN applied[k + 1].argument ELSE text

C21_NormalizeOnceIdempotent ==
    \A k \in 1..Len(applied) :
        LET arg == applied[k].argument
            form == SubscriptForm(applied[k].normalizer)
        IN  /\ ~Contains(ResultOf(k), CO2)
            /\ Count(ResultOf(k), form) = Count(arg, CO2) + Count(arg, form)
            /\ (k > 1 /\ applied[k - 1].normalizer = applied[k].normalizer)
                  => ResultOf(k) = arg

\* the scenario text went through the inline formatter twice
C21_Witness ==
    /\ Len(applied) = 2
    /\ applied[1].normalizer = "inline"
    /\ applied[2].normalizer = "inline"
    /\ applied[1].argument = ScenarioText
    /\ Count(applied[1].argument, CO2) = 2
    /\ Count(text, CO2Sub) = 2
    /\ text = applied[2].argument

(***************************************************************************)
(* C22: when the render/write step fails, the conversion returns no path   *)
(* and no partial file is left under the final name: a file under the      *)
(* reports directory is always a completely written one.                   *)
(***************************************************************************)
C22_WriteFailureLeavesNoPartial ==
    /\ [][pc' = "failed" => returned' = returned]_vars
    /\ [](\A f \in artifacts : f.complete)

(***************************************************************************)
(* C23: a search tool does not raise: when a constructor or the client     *)
(* fails, the tool returns one element with an error field and none of     *)
(* the results gathered so far; a result that cannot be processed is       *)
(* skipped, the others are returned, without an error element.             *)
(***************************************************************************)
\* the client fails on the step the tool is about to take
ClientFailsNow ==
    \/ search_pc = "construct" /\ search_pc' # "iterate"
    \/ search_pc = "iterate" /\ pending # <<>> /\ Head(pending).kind = "exception"

C23_SearchFailureIsSentinel ==
    [][ /\ ClientFailsNow =>
              /\ search_pc' = "returned"
              /\ Len(search_return') = 1
              /\ "error" \in DOMAIN search_return'[1]
              /\ \A k \in 1..Len(results) : search_return'[1] # results[k]
        /\ (search_pc = "iterate" /\ pending # <<>> /\ Head(pending).kind = "malformed") =>
              /\ search_pc' = "iterate"
              /\ results' = results
              /\ pending' = Tail(pending)
        /\ (search_pc = "iterate" /\ pending # <<>> /\ Head(pending).kind = "result") =>
              /\ search_pc' = "iterate"
              /\ Len(results') = Len(results) + 1
              /\ SubSeq(results', 1, Len(results)) = results
              /\ results'[Len(results')].title = Head(pending).title
        /\ (search_pc = "iterate" /\ pending = <<>>) =>
              /\ search_pc' = "returned"
              /\ Len(search_return') = Len(results)
              /\ \A k \in 1..Len(search_return') :
                    /\ "error" \notin DOMAIN search_return'[k]
                    /\ Cardinality({m \in 1..Len(search_return') :
                                        search_return'[m] = search_return'[k]})
                         = Cardinality({m \in 1..Len(results) :
                                           results[m] = search_return'[k]})
      ]_vars

\* the client failed after one result had been gathered and one skipped
C23_Witness ==
    /\ search_pc = "returned"
    /\ Len(results) = 1
    /\ Len(log) = 3
    /\ pending # <<>>
    /\ Head(pending).kind = "exception"
    /\ search_return = << [error |-> "Search failed"] >>

(***************************************************************************)
(* C25: the blocks of the parser's output are in the order in which their  *)
(* constructs begin in the input: of two lines whose text is in the        *)
(* output, the block holding the earlier line does not come after the      *)
(* block holding the later one.                                            *)
(***************************************************************************)
\* the block e holds the text of the line
BlockHolds(e, line) ==
    CASE LineKind(line) = "header" ->
            /\ IsHeading(e)
            /\ e.text = MarkedText(line, HashRun(line))
      [] LineKind(line) = "list" ->
            /\ e.type = "ListFlowable"
            /\ \E m \in 1..Len(e.items) :
                  e.items[m] = ProcessInlineFormatting(MarkedText(line, ListPrefixLen(line)))
      [] LineKind(line) = "table" ->
            /\ e.type = "KeepTogether"
            /\ \E m \in 1..Len(e.rows) :
                  e.rows[m] = [c \in DOMAIN TableCells(line) |->
                                  ProcessInlineFormatting(TableCells(line)[c])]
      [] LineKind(line) = "paragraph" ->
            /\ e.type = "Paragraph"
            /\ e.style = "CustomBodyText"
            /\ e.text = ProcessInlineFormatting(line)

\* the positions of the parser's output whose block holds the text of line k
BlocksOf(k) ==
    IF Strip(lines[k]) = <<>> THEN {}
    ELSE {q \in 1..Len(parsed) : BlockHolds(parsed[q], Strip(lines[k]))}

C25_BlocksInInputOrder ==
    Parsed =>
        \A k1, k2 \in 1..Len(lines) :
            (k1 < k2 /\ BlocksOf(k1) # {} /\ BlocksOf(k2) # {}) =>
                \E p1 \in BlocksOf(k1), p2 \in BlocksOf(k2) : p1 <= p2

(***************************************************************************)
(* C26: in every state of the parser in_list holds iff list_items is not   *)
(* empty iff list_type is set, and in_table holds iff table_data is not    *)
(* empty; so no builder is called on an empty accumulation and the output  *)
(* holds no null block.                                                    *)
(***************************************************************************)
C26_AccumulationsConsistent ==
    /\ state.in_list <=> state.list_items # <<>>
    /\ state.in_list <=> state.list_type # "None"
    /\ state.in_table <=> state.table_data # <<>>
    /\ \A k \in 1..Len(elements) : elements[k].type # "None"
    /\ \A k \in 1..Len(parsed) : parsed[k].type # "None"

\* a separator line was skipped with no table open, and a later line has
\* committed a table
C26_Witness ==
    /\ pc = "parse"
    /\ i = Len(lines)
    /\ Len(lines) >= 3
    /\ IsDivider(Strip(lines[1]))
    /\ Contains(Strip(lines[1]), <<"-", "-", "-">>)
    /\ ~state.in_table
    /\ ~state.in_list
    /\ Positions(elements, "KeepTogether") # {}

(***************************************************************************)
(* C27: the conversion of a finite input completes: every iteration of     *)
(* the line pass moves to the next line, the pass ends when all lines are  *)
(* consumed; every iteration of the marker-insertion pass moves to the     *)
(* next index of a range fixed before the pass, however many markers it    *)
(* inserts; and the conversion reaches its end.                            *)
(***************************************************************************)
C27_ConversionCompletes ==
    /\ [][ /\ (pc = "parse" /\ pc' = "parse") => (i < Len(lines) /\ i' = i + 1)
           /\ (pc = "parse" /\ pc' # "parse") => i = Len(lines)
           /\ (pc = "breaks" /\ pc' = "breaks") =>
                 /\ i < stop
                 /\ i' = i + 1
                 /\ stop' = stop
                 /\ Len(elements') >= Len(elements)
           /\ (pc = "breaks" /\ pc' # "breaks") => i = stop
         ]_vars
    /\ <>(pc = "done")

\* the conversion has completed after a marker-insertion pass that put markers
\* into the sequence it was scanning
C27_Witness ==
    /\ pc = "done"
    /\ Len(lines) >= 3
    /\ i = stop
    /\ stop < Len(elements)
    /\ Positions(elements, "FrameBreak") # {}

====
